---------------------------- MODULE Spec2Model ----------------------------
(***************************************************************************)
(* PricePromoGenix: the metrics-and-recommendation pipeline                *)
(* (utils.process_data and its helpers) and the Flask handlers around the  *)
(* shared data_store (app.py).                                             *)
(*                                                                         *)
(* Three specifications share the variables:                               *)
(*   Spec      one run of process_data over an input table, stage by       *)
(*             stage, with the process environment (OPENAI_API_KEY) and    *)
(*             the LLM service as the run's environment;                   *)
(*   SpecRule  generate_basic_recommendation.basic_logic as a pure         *)
(*             function of one row;                                        *)
(*   SpecApp   the request handlers of app.py running as concurrent        *)
(*             threads over data_store.                                    *)
(*                                                                         *)
(* Numbers are exact: a derived metric is a rational n/d (d > 0), so a     *)
(* comparison with a threshold is decided by cross-multiplication; the     *)
(* rounding of binary floating point is not modelled.                      *)
(***************************************************************************)
EXTENDS Integers, Sequences, FiniteSets, TLC

(***************************************************************************)
(* Values.  Every cell of a table and every Python value the pipeline      *)
(* handles is a record tagged by k.                                        *)
(***************************************************************************)
NaN == [k |-> "nan"]
Num(v) == [k |-> "num", v |-> v]
Str(s) == [k |-> "str", s |-> s]
List(items) == [k |-> "list", items |-> items]
Tuple(items) == [k |-> "tuple", items |-> items]
Bool(b) == [k |-> "bool", b |-> b]
Text(t) == [k |-> "text", t |-> t]
Rat(n, d) == [k |-> "rat", n |-> n, d |-> d]
SeriesObj(vals) == [k |-> "series", vals |-> vals]

\* pandas.isna on a scalar cell
IsNa(x) == x.k = "nan"

\* Python truth value of an object (bool(x))
Truthy(x) ==
    CASE x.k = "num" -> x.v # 0
      [] x.k \in {"list", "tuple"} -> x.items # <<>>
      [] x.k = "str" -> x.s # <<>>
      [] x.k = "bool" -> x.b
      [] OTHER -> TRUE

(***************************************************************************)
(* Text of a history cell: a sequence of one-character strings over        *)
(* digits, brackets, parentheses, comma, blank and the letter x.           *)
(***************************************************************************)
Digits == {"0", "1", "2", "3", "4", "5", "6", "7", "8", "9"}

DigitVal(c) ==
    CASE c = "0" -> 0 [] c = "1" -> 1 [] c = "2" -> 2 [] c = "3" -> 3
      [] c = "4" -> 4 [] c = "5" -> 5 [] c = "6" -> 6 [] c = "7" -> 7
      [] c = "8" -> 8 [] c = "9" -> 9

RECURSIVE DigitsVal(_)
DigitsVal(d) ==
    IF d = <<>> THEN 0
    ELSE 10 * DigitsVal(SubSeq(d, 1, Len(d) - 1)) + DigitVal(d[Len(d)])

RECURSIVE SkipWs(_, _)
\* first position >= i that holds no blank (Len(s) + 1 at the end)
SkipWs(s, i) ==
    IF i <= Len(s) /\ s[i] = " " THEN SkipWs(s, i + 1) ELSE i

RECURSIVE DigitsEnd(_, _)
\* first position >= i that holds no digit
DigitsEnd(s, i) ==
    IF i <= Len(s) /\ s[i] \in Digits THEN DigitsEnd(s, i + 1) ELSE i

\* str.strip() for blanks
RECURSIVE RStrip(_)
RStrip(s) ==
    IF s # <<>> /\ s[Len(s)] = " " THEN RStrip(SubSeq(s, 1, Len(s) - 1)) ELSE s

Strip(s) == RStrip(SubSeq(s, SkipWs(s, 1), Len(s)))

ParseFail == [ok |-> FALSE]
ParseOk(val, pos) == [ok |-> TRUE, val |-> val, pos |-> pos]

\* An integer literal at position i.  JSON: no leading zero before another
\* digit.  Python: a literal starting with 0 is all zeros.
ParseInt(s, i, py) ==
    LET j == DigitsEnd(s, i)
        d == SubSeq(s, i, j - 1)
        zeros == \A n \in 1..Len(d) : d[n] = "0"
    IN  IF j = i THEN ParseFail
        ELSE IF d[1] = "0" /\ Len(d) > 1 /\ ~(py /\ zeros) THEN ParseFail
        ELSE ParseOk(Num(DigitsVal(d)), j)

ListResult(r) == IF r.ok THEN ParseOk(List(r.val.items), r.pos) ELSE ParseFail

\* (e) is e itself, (e,) and (e, e) and () are tuples
TupleResult(r) ==
    IF ~r.ok THEN ParseFail
    ELSE IF Len(r.val.items) = 1 /\ ~r.val.trailing
         THEN ParseOk(r.val.items[1], r.pos)
         ELSE ParseOk(Tuple(r.val.items), r.pos)

RECURSIVE ParseValue(_, _, _), ParseItems(_, _, _, _, _), AfterItem(_, _, _, _, _)
\* One value at position i: an integer, a [...] list, and for Python a (...)
\* tuple or parenthesised value.
ParseValue(s, i, py) ==
    IF SkipWs(s, i) > Len(s) THEN ParseFail
    ELSE IF s[SkipWs(s, i)] = "[" THEN
        ListResult(ParseItems(s, SkipWs(s, i) + 1, py, "]", <<>>))
    ELSE IF py /\ s[SkipWs(s, i)] = "(" THEN
        TupleResult(ParseItems(s, SkipWs(s, i) + 1, py, ")", <<>>))
    ELSE IF s[SkipWs(s, i)] \in Digits THEN ParseInt(s, SkipWs(s, i), py)
    ELSE ParseFail

\* The elements up to the closing character.  Python accepts a trailing
\* comma after at least one element, JSON does not.
ParseItems(s, i, py, close, acc) ==
    IF SkipWs(s, i) > Len(s) THEN ParseFail
    ELSE IF s[SkipWs(s, i)] = close THEN
        IF acc = <<>> \/ py
        THEN ParseOk([items |-> acc, trailing |-> acc # <<>>], SkipWs(s, i) + 1)
        ELSE ParseFail
    ELSE AfterItem(s, ParseValue(s, SkipWs(s, i), py), py, close, acc)

\* after the element r: a comma and the next elements, or the closing
\* character
AfterItem(s, r, py, close, acc) ==
    IF ~r.ok THEN ParseFail
    ELSE IF SkipWs(s, r.pos) > Len(s) THEN ParseFail
    ELSE IF s[SkipWs(s, r.pos)] = "," THEN
        ParseItems(s, SkipWs(s, r.pos) + 1, py, close, Append(acc, r.val))
    ELSE IF s[SkipWs(s, r.pos)] = close THEN
        ParseOk([items |-> Append(acc, r.val), trailing |-> FALSE],
                SkipWs(s, r.pos) + 1)
    ELSE ParseFail

\* the whole text is consumed up to position `last`
Complete(r, last) == IF r.ok /\ r.pos > last THEN [ok |-> TRUE, val |-> r.val] ELSE ParseFail

\* json.loads(value): one JSON value and nothing after it but blanks;
\* ok = FALSE is json.JSONDecodeError
json_loads(s) == Complete(ParseValue(RStrip(s), 1, FALSE), Len(RStrip(s)))

EndMark == "$"

\* ast.literal_eval(value): a Python expression list made of integers, lists
\* and tuples; "1,2" is the tuple (1, 2).  ok = FALSE is SyntaxError or
\* ValueError (a name, a call, a subscript).
literal_eval(s) ==
    IF Strip(s) = <<>> THEN ParseFail
    ELSE Complete(TupleResult(ParseItems(Append(Strip(s), EndMark), 1, TRUE,
                                         EndMark, <<>>)),
                  Len(Strip(s)) + 1)

RECURSIVE SplitComma(_, _)
\* value.split(','): acc is the piece being read
SplitComma(s, acc) ==
    IF s = <<>> THEN <<acc>>
    ELSE IF s[1] = "," THEN <<acc>> \o SplitComma(Tail(s), <<>>)
    ELSE SplitComma(Tail(s), Append(acc, s[1]))

\* float(tok) succeeds on a run of digits
IsFloatText(tok) == tok # <<>> /\ \A n \in 1..Len(tok) : tok[n] \in Digits

\* one more float in front of the rest
ConsFloat(tok, rest) ==
    IF tok = <<>> THEN rest
    ELSE IF ~IsFloatText(tok) \/ ~rest.ok THEN [ok |-> FALSE]
    ELSE [ok |-> TRUE, val |-> <<Num(DigitsVal(tok))>> \o rest.val]

RECURSIVE FloatTokens(_)
\* [float(x.strip()) for x in pieces if x.strip()]; ok = FALSE is the
\* ValueError of float()
FloatTokens(pieces) ==
    IF pieces = <<>> THEN [ok |-> TRUE, val |-> <<>>]
    ELSE ConsFloat(Strip(pieces[1]), FloatTokens(Tail(pieces)))

(***************************************************************************)
(* parse_history (utils.py 76-98).  ok = FALSE: an exception leaves the    *)
(* function.  pd.isna of a list is an array, and `if` on an array of two   *)
(* or more elements raises ValueError; of one element it is that           *)
(* element's isna.                                                         *)
(***************************************************************************)
\* exc raised while the column `at` was being computed
Raise(exc, at) == [ok |-> FALSE, exc |-> exc, at |-> at]
Ok(val) == [ok |-> TRUE, val |-> val]

\* utils.py 97: the last fallback, whose ValueError nothing catches
FromSplit(f) == IF f.ok THEN Ok(List(f.val)) ELSE Raise("ValueError", "history")

\* utils.py 94-96
FromLiteral(s, l) ==
    IF l.ok THEN Ok(l.val) ELSE FromSplit(FloatTokens(SplitComma(s, <<>>)))

\* utils.py 91-93
FromJson(s, j) == IF j.ok THEN Ok(j.val) ELSE FromLiteral(s, literal_eval(s))

parse_history(value) ==
    IF value.k = "list" THEN
        IF Len(value.items) >= 2 THEN Raise("ValueError", "history")
        ELSE IF Len(value.items) = 1 /\ IsNa(value.items[1]) THEN Ok(List(<<>>))
        ELSE Ok(value)
    ELSE IF IsNa(value) THEN Ok(List(<<>>))
    ELSE IF value.k = "str" THEN FromJson(value.s, json_loads(value.s))
    ELSE Ok(List(<<value>>))

(***************************************************************************)
(* Exact arithmetic on derived metrics.                                    *)
(***************************************************************************)
Inf == [k |-> "inf"]

ToRat(x) == IF x.k = "num" THEN Rat(x.v, 1) ELSE x

\* a / b of two rationals; a zero divisor gives numpy's inf or nan, never
\* an exception
RatDiv(a, b) ==
    IF b.n = 0 THEN Inf
    ELSE IF b.n > 0 THEN Rat(a.n * b.d, a.d * b.n)
    ELSE Rat(-(a.n * b.d), -(a.d * b.n))

RatMul(a, b) == Rat(a.n * b.n, a.d * b.d)
RatLt(a, b) == a.n * b.d < b.n * a.d
RatGt(a, b) == RatLt(b, a)
IsZero(x) == (x.k = "num" /\ x.v = 0) \/ (x.k = "rat" /\ x.n = 0)

(***************************************************************************)
(* Data frames: the set of column names and the rows, each row a function  *)
(* from the column names to cells.                                         *)
(***************************************************************************)
Required == <<"Product", "Current_Price", "Cost", "Current_Stock", "Sales_30d">>
RequiredSet == {Required[i] : i \in 1..Len(Required)}
Optional == {"Competitor_Price", "Price_History", "Sales_History", "Location",
             "Past_Period_Sales"}
AllColumns == RequiredSet \cup Optional

NRows(df) == Len(df.rows)
Column(df, name) == [i \in 1..NRows(df) |-> df.rows[i][name]]

\* df[name] = vals
SetColumn(df, name, vals) ==
    [cols |-> df.cols \cup {name},
     rows |-> [i \in 1..NRows(df) |-> (name :> vals[i]) @@ df.rows[i]]]

\* pd.Series([None] * len(df))
NoneSeries(df) == [i \in 1..NRows(df) |-> NaN]

\* row.get(key, default)
RowGet(row, key, default) == IF key \in DOMAIN row THEN row[key] ELSE default

RECURSIVE SelectSeq2(_, _)
\* [col for col in cols if col not in present]
SelectSeq2(cols, present) ==
    IF cols = <<>> THEN <<>>
    ELSE (IF cols[1] \in present THEN <<>> ELSE <<cols[1]>>)
         \o SelectSeq2(Tail(cols), present)

\* reports only the first missing column
missing_cols_first(df) ==
    IF SelectSeq2(Required, df.cols) = <<>> THEN <<>>
    ELSE <<Head(SelectSeq2(Required, df.cols))>>

\* utils.py 27-30: the required columns the table lacks, all of them, in the
\* order of required_cols
missing_cols(df) == SelectSeq2(Required, df.cols)

\* Series.apply(f) whose f returned the values `results`: if the first result
\* is a Series the results are stacked into a DataFrame (one column per
\* element of the Series), which fails if another result is a scalar, and
\* assigning a frame of more than one column to a single column fails; else
\* the results become a Series of objects as they are.
ApplyExpand(results) ==
    IF results = <<>> THEN Ok(results)
    ELSE IF results[1].k # "series" THEN Ok(results)
    ELSE IF \E i \in 1..Len(results) : results[i].k # "series"
         THEN Raise("TypeError", "apply")
    ELSE IF Len(results[1].vals) # 1 THEN Raise("ValueError", "apply")
    ELSE Ok([i \in 1..Len(results) |-> results[i].vals[1]])

(***************************************************************************)
(* utils.py 33-37: both history columns parsed, an empty or falsy result   *)
(* replaced by the one-element list of the current value.                  *)
(***************************************************************************)
\* the exception of the first row that raises
FirstError(parsed) ==
    parsed[CHOOSE i \in DOMAIN parsed :
              ~parsed[i].ok /\ \A j \in 1..(i - 1) : parsed[j].ok].exc

\* utils.py 34, 37: row[h] if row[h] else [row[fallback]]
OrFallback(df, parsed, fallback) ==
    IF \E i \in DOMAIN parsed : ~parsed[i].ok
    THEN Raise(FirstError(parsed), "history")
    ELSE Ok([i \in DOMAIN parsed |->
                IF Truthy(parsed[i].val) THEN parsed[i].val
                ELSE List(<<df.rows[i][fallback]>>)])

\* df.get(name, pd.Series([None] * len(df)))
GetOrNone(df, name) ==
    IF name \in df.cols THEN Column(df, name) ELSE NoneSeries(df)

ApplyParse(raw) == [i \in DOMAIN raw |-> parse_history(raw[i])]

HistoryColumn(df, name, fallback) ==
    OrFallback(df, ApplyParse(GetOrNone(df, name)), fallback)

\* df[name] = r, when r was computed without an exception
AssignColumn(df, name, r) ==
    IF r.ok THEN Ok(SetColumn(df, name, r.val)) ELSE Raise(r.exc, name)

\* the next statement runs unless the one before raised
Then(r, F(_)) == IF r.ok THEN F(r.val) ELSE r

PriceHistoryStage(df) ==
    AssignColumn(df, "Price_History",
                 HistoryColumn(df, "Price_History", "Current_Price"))

SalesHistoryStage(df) ==
    AssignColumn(df, "Sales_History",
                 HistoryColumn(df, "Sales_History", "Sales_30d"))

ParseHistories(df) == Then(PriceHistoryStage(df), SalesHistoryStage)

(***************************************************************************)
(* calculate_price_sensitivity (utils.py 100-132).  Any exception (len of  *)
(* a number, arithmetic on a nested list) is caught and gives 0.           *)
(***************************************************************************)
IsSeq(x) == x.k \in {"list", "tuple"}

\* utils.py 118-128 on the two most recent points
Slope(lp, pp, ls, ps, metric_type) ==
    IF \E x \in {lp, pp, ls, ps} : x.k # "num" THEN Num(0)
    ELSE IF lp.v - pp.v = 0 THEN Num(0)
    ELSE IF metric_type = "units"
         THEN RatDiv(Rat(ls.v - ps.v, 1), Rat(lp.v - pp.v, 1))
         ELSE RatDiv(Rat(ls.v * lp.v - ps.v * pp.v, 1), Rat(lp.v - pp.v, 1))

Sensitivity(ph, sh, metric_type) ==
    IF ~IsSeq(ph) THEN Num(0)
    ELSE IF Len(ph.items) < 2 THEN Num(0)
    ELSE IF ~IsSeq(sh) THEN Num(0)
    ELSE IF Len(sh.items) < 2 THEN Num(0)
    ELSE Slope(ph.items[Len(ph.items)], ph.items[Len(ph.items) - 1],
               sh.items[Len(sh.items)], sh.items[Len(sh.items) - 1], metric_type)

calculate_price_sensitivity(row, metric_type) ==
    Sensitivity(row["Price_History"], row["Sales_History"], metric_type)

(***************************************************************************)
(* check_holidays (utils.py 134-158).  The calendars are those of the      *)
(* holidays package for 2025, as days of the year.                         *)
(***************************************************************************)
HolidaysRU == (1..8) \cup {54, 67, 121, 129, 163, 308}
HolidaysUS == {1, 20, 48, 146, 170, 185, 244, 286, 315, 331, 359}
CurrentDay == 82
HolidayWindow == 8

\* str.upper() on the region codes of the model
Upper(t) ==
    CASE t = "ru" -> "RU" [] t = "us" -> "US" [] t = "de" -> "DE" [] OTHER -> t

Calendar(code) == IF code = "US" THEN HolidaysUS ELSE HolidaysRU

check_holidays(location, day) ==
    IF location.k # "text" THEN FALSE
    ELSE \E i \in 0..(HolidayWindow - 1) : (day + i) \in Calendar(Upper(location.t))

(***************************************************************************)
(* utils.py 40-62: the metric columns.  The lambdas of Competitor_Gap and  *)
(* Seasonal_Demand_Factor read the whole column df['Current_Price'] and    *)
(* df['Sales_30d'], so a positive cell gives a Series, not a number.       *)
(***************************************************************************)
VelocityFloor == Rat(1, 100)

Sales_Velocity(row) ==
    IF row["Sales_30d"].v = 0 THEN VelocityFloor ELSE Rat(row["Sales_30d"].v, 30)

Stock_Runway(row) == RatDiv(ToRat(row["Current_Stock"]), Sales_Velocity(row))

Discount_Margin(row) ==
    RatMul(RatDiv(Rat(row["Current_Price"].v - row["Cost"].v, 1),
                  ToRat(row["Current_Price"])), Rat(100, 1))

\* lambda x: (df['Current_Price'] - x) / x * 100 if pd.notna(x) and x > 0 else 0
CompetitorGapCell(df, x) ==
    IF ~IsNa(x) /\ x.v > 0
    THEN SeriesObj([i \in 1..NRows(df) |->
            RatMul(RatDiv(Rat(df.rows[i]["Current_Price"].v - x.v, 1), ToRat(x)),
                   Rat(100, 1))])
    ELSE Num(0)

\* lambda x: df['Sales_30d'] / x if pd.notna(x) and x > 0 else 1
SeasonalCell(df, x) ==
    IF ~IsNa(x) /\ x.v > 0
    THEN SeriesObj([i \in 1..NRows(df) |->
            RatDiv(ToRat(df.rows[i]["Sales_30d"]), ToRat(x))])
    ELSE Num(1)

\* utils.py 47-49
Competitor_Gap(df) ==
    ApplyExpand([i \in 1..NRows(df) |->
                    CompetitorGapCell(df, GetOrNone(df, "Competitor_Price")[i])])

\* df.get('Past_Period_Sales', df['Sales_30d'])
GetOrSales(df) ==
    IF "Past_Period_Sales" \in df.cols
    THEN Column(df, "Past_Period_Sales") ELSE Column(df, "Sales_30d")

\* utils.py 56-58
Seasonal_Demand_Factor(df) ==
    ApplyExpand([i \in 1..NRows(df) |-> SeasonalCell(df, GetOrSales(df)[i])])

\* utils.py 62: df.get('Location', 'RU') is the string 'RU' when the column
\* is absent, and a string has no apply
Is_Holiday_Period(df) ==
    IF "Location" \notin df.cols THEN Raise("AttributeError", "Is_Holiday_Period")
    ELSE Ok([i \in 1..NRows(df) |->
                Bool(check_holidays(df.rows[i]["Location"], CurrentDay))])

MapRows(df, name, F(_)) ==
    SetColumn(df, name, [i \in 1..NRows(df) |-> F(df.rows[i])])

\* utils.py 40-44
BasicMetrics(df) ==
    MapRows(MapRows(MapRows(df, "Sales_Velocity", Sales_Velocity),
                    "Stock_Runway", Stock_Runway),
            "Discount_Margin", Discount_Margin)

GapStage(df) == AssignColumn(df, "Competitor_Gap", Competitor_Gap(df))

PsUnits(row) == calculate_price_sensitivity(row, "units")
PsRevenue(row) == calculate_price_sensitivity(row, "revenue")

\* utils.py 52-58
SeasonalStage(df) ==
    AssignColumn(MapRows(MapRows(df, "PS_units", PsUnits), "PS_revenue", PsRevenue),
                 "Seasonal_Demand_Factor",
                 Seasonal_Demand_Factor(df))

HolidayStage(df) == AssignColumn(df, "Is_Holiday_Period", Is_Holiday_Period(df))

ComputeMetrics(df) ==
    Then(Then(GapStage(BasicMetrics(df)), SeasonalStage), HolidayStage)

(***************************************************************************)
(* Recommendation texts: the lines of the string, each a label and a body. *)
(***************************************************************************)
Line(label, body) == [label |-> label, body |-> body]
ThreeLines(a, r, e) ==
    [k |-> "rec", lines |-> <<Line("Analysis", a), Line("Recommendation", r),
                              Line("Effect", e)>>]
Message(m) == [k |-> "rec", lines |-> <<Line("", m)>>]

RecDiscount15 ==
    ThreeLines("excess stock and high price sensitivity", "discount 15%",
               "faster sales")
RecRaise10 == ThreeLines("low stock", "raise price by 10%", "stock preserved")
RecDiscount10 == ThreeLines("holiday approaching", "discount 10%", "sales growth")
RecHold == ThreeLines("stable situation", "keep price", "stability")

MsgNoKey == Message("OpenAI API key is not configured")
MsgBadFormat == Message("API response format error")
MsgConnection == Message("OpenAI API connection error")
MsgUnexpected == Message("unexpected error while generating the recommendation")
LlmContent == Message("content of the first choice of the completion")

(***************************************************************************)
(* generate_basic_recommendation.basic_logic (utils.py 247-259)            *)
(***************************************************************************)
ExcessRunway == 60
LowRunway == 15
SensitivityLimit == Rat(-1, 10)

\* the holiday branch tested before the low-stock branch
basic_logic_holiday_first(row) ==
    IF RatGt(ToRat(RowGet(row, "Stock_Runway", Num(0))), Rat(ExcessRunway, 1))
       /\ RatLt(ToRat(RowGet(row, "PS_units", Num(0))), SensitivityLimit)
    THEN RecDiscount15
    ELSE IF Truthy(RowGet(row, "Is_Holiday_Period", Bool(FALSE))) THEN RecDiscount10
    ELSE IF RatLt(ToRat(RowGet(row, "Stock_Runway", Num(0))), Rat(LowRunway, 1))
    THEN RecRaise10
    ELSE RecHold

basic_logic(row) ==
    LET stock_runway == ToRat(RowGet(row, "Stock_Runway", Num(0)))
        ps_units == ToRat(RowGet(row, "PS_units", Num(0)))
        is_holiday == RowGet(row, "Is_Holiday_Period", Bool(FALSE))
    IN  IF RatGt(stock_runway, Rat(ExcessRunway, 1))
           /\ RatLt(ps_units, SensitivityLimit)
        THEN RecDiscount15
        ELSE IF RatLt(stock_runway, Rat(LowRunway, 1)) THEN RecRaise10
        ELSE IF Truthy(is_holiday) THEN RecDiscount10
        ELSE RecHold

(***************************************************************************)
(* get_ai_recommendation (utils.py 160-235).  key: os.getenv at line 171;  *)
(* llm: what the request to the completion service comes to.               *)
(***************************************************************************)
LlmFailures == {"timeout", "network", "http_error", "bad_body", "no_choices",
                "bad_choice"}
LlmOutcomes == {"ok"} \cup LlmFailures

\* the fields the prompt renders with a float format (lines 183-189)
FormattedFields == {"Sales_Velocity", "Stock_Runway", "Discount_Margin",
                    "Competitor_Gap", "PS_units", "PS_revenue",
                    "Seasonal_Demand_Factor"}

\* format(x, '.2f') raises TypeError on a Series
PromptFails(row) == \E f \in FormattedFields : f \in DOMAIN row /\ row[f].k = "series"

\* whether the request of line 200 is sent
SendsRequest(row, key) == key /\ ~PromptFails(row)

get_ai_recommendation(row, key, llm) ==
    IF ~key THEN MsgNoKey
    ELSE IF PromptFails(row) THEN MsgUnexpected
    ELSE CASE llm = "ok" -> LlmContent
           [] llm \in {"timeout", "network", "http_error", "bad_body"} -> MsgConnection
           [] llm = "no_choices" -> MsgBadFormat
           [] OTHER -> MsgUnexpected

(***************************************************************************)
(* Input tables.                                                           *)
(***************************************************************************)
MaxRows == 2
MaxEnvChanges == 1

CellJsonPrices == Str(<<"[", "1", "0", ",", "1", "2", "]">>)
CellJsonSales == Str(<<"[", "1", "0", "0", ",", "8", "0", "]">>)
CellJsonScalar == Str(<<"5">>)
CellJsonEmpty == Str(<<"[", "]">>)
CellCommaList == Str(<<"1", "0", ",", "1", "2">>)
CellZeroPadded == Str(<<"0", "1", "0", ",", "0", "1", "2">>)
CellGarbage == Str(<<"1", "0", ",", "x">>)
CellNativeList == List(<<Num(10), Num(12)>>)
CellNativeOne == List(<<Num(10)>>)

HistoryCells ==
    {NaN, Num(5), CellNativeList, CellNativeOne, CellJsonPrices, CellJsonScalar,
     CellJsonEmpty, CellCommaList, CellZeroPadded, CellGarbage}

BaseRow ==
    [Product |-> Text("A"), Current_Price |-> Num(10), Cost |-> Num(6),
     Current_Stock |-> Num(100), Sales_30d |-> Num(30),
     Competitor_Price |-> NaN, Price_History |-> NaN, Sales_History |-> NaN,
     Location |-> Text("RU"), Past_Period_Sales |-> NaN]

With(row, col, v) == [row EXCEPT ![col] = v]

\* the rows of the tables: the base row with one aspect changed
RowProfiles ==
    {BaseRow}
    \cup {With(BaseRow, "Price_History", c) : c \in HistoryCells}
    \cup {With(BaseRow, "Sales_History", c) : c \in {CellJsonScalar, CellGarbage}}
    \cup {With(With(BaseRow, "Price_History", c), "Sales_History", CellJsonSales) :
            c \in {CellJsonPrices, CellCommaList}}
    \cup {With(BaseRow, "Competitor_Price", c) : c \in {Num(0), Num(8)}}
    \cup {With(BaseRow, "Location", c) : c \in {Text("us"), Text("de"), NaN}}
    \cup {With(BaseRow, "Past_Period_Sales", c) : c \in {Num(0), Num(20)}}
    \cup {With(BaseRow, "Sales_30d", Num(0)), With(BaseRow, "Current_Stock", Num(10))}

Restrict(row, cols) == [c \in cols |-> row[c]]

\* every column present and the rows drawn from the profiles, or any set of
\* columns over base rows
Tables ==
    {[cols |-> AllColumns, rows |-> rows] :
        rows \in UNION {[1..n -> RowProfiles] : n \in 1..MaxRows}}
    \cup {[cols |-> cols, rows |-> [i \in 1..n |-> Restrict(BaseRow, cols)]] :
            cols \in SUBSET AllColumns, n \in 1..MaxRows}

(***************************************************************************)
(* State.                                                                  *)
(***************************************************************************)
VARIABLES
    data,       \* process_data: the table passed in
    df,         \* process_data: the working copy
    pc,         \* process_data: the statement to run next
    stages,     \* the stages of process_data that have run, in order
    strategy,   \* the branch taken at utils.py 65: "none", "ai" or "basic"
    apiKey,     \* whether OPENAI_API_KEY is set in the process environment
    envChanges, \* how often the environment changed during the run
    calls,      \* per row recommended so far: the key read, and whether the
                \* request was sent ("none" if not) and "failed" or was "ok"
    recs,       \* the recommendations computed so far
    result      \* how process_data ended

VARIABLES
    ruleRow,    \* basic_logic: the row passed in
    ruleOut     \* basic_logic: the text returned

VARIABLES
    data_store, \* app.py 26-30: raw_data, processed_data, last_update
    th,         \* per server thread: the request it handles and its locals
    uploads,    \* upload requests accepted so far (each is numbered)
    queries,    \* query and export requests accepted so far
    okUploads   \* uploads whose process_data has returned a table

pipeVars == <<data, df, pc, stages, strategy, apiKey, envChanges, calls, recs, result>>
ruleVars == <<ruleRow, ruleOut>>
appVars == <<data_store, th, uploads, queries, okUploads>>
vars == <<pipeVars, ruleVars, appVars>>

NoResult == [status |-> "running"]

None == [k |-> "None"]
NoTable == [cols |-> {}, rows |-> <<>>]
Threads == {"t1", "t2"}
\* a thread's record: the handler it runs (op), the statement it is at (pc),
\* the handler's locals (id and data of the upload; what a reader has read),
\* okAtCheck (okUploads when the handler tested the store) and the response
IdleThread ==
    [op |-> "idle", pc |-> "idle", id |-> 0, data |-> NoTable,
     seenData |-> None, seenStamp |-> None, okAtCheck |-> 0,
     status |-> 0, body |-> "none"]

\* the variables of a specification that is not running
RuleIdle == ruleRow = None /\ ruleOut = None
AppIdle ==
    /\ data_store = [raw_data |-> None, processed_data |-> None, last_update |-> None]
    /\ th = [t \in Threads |-> IdleThread]
    /\ uploads = 0
    /\ queries = 0
    /\ okUploads = 0
PipeIdle ==
    /\ data = NoTable
    /\ df = NoTable
    /\ pc = "idle"
    /\ stages = <<>>
    /\ strategy = "none"
    /\ apiKey = FALSE
    /\ envChanges = 0
    /\ calls = <<>>
    /\ recs = <<>>
    /\ result = NoResult

Init ==
    /\ RuleIdle
    /\ AppIdle
    /\ data \in Tables
    /\ df = NoTable
    /\ pc = "validate"
    /\ stages = <<>>
    /\ strategy = "none"
    /\ apiKey \in BOOLEAN
    /\ envChanges = 0
    /\ calls = <<>>
    /\ recs = <<>>
    /\ result = NoResult

\* utils.py 72-74: the exception is logged and raised again
Raised(exc, at) ==
    /\ pc' = "raised"
    /\ result' = [status |-> "raised", exc |-> exc, at |-> at, missing |-> <<>>]

\* a stage ends with the new frame, or with its exception
StageEnds(r, next) ==
    IF r.ok
    THEN df' = r.val /\ pc' = next /\ UNCHANGED result
    ELSE Raised(r.exc, r.at) /\ UNCHANGED df

\* utils.py 24-30
Validate ==
    /\ UNCHANGED <<ruleVars, appVars>>
    /\ pc = "validate"
    /\ stages' = Append(stages, "validate")
    /\ df' = data
    /\ IF missing_cols(data) # <<>>
       THEN /\ pc' = "raised"
            /\ result' = [status |-> "raised", exc |-> "ValueError",
                          at |-> "required_cols", missing |-> missing_cols(data)]
       ELSE /\ pc' = "parse"
            /\ UNCHANGED result
    /\ UNCHANGED <<data, strategy, apiKey, envChanges, calls, recs>>

\* utils.py 33-37
Parse ==
    /\ UNCHANGED <<ruleVars, appVars>>
    /\ pc = "parse"
    /\ stages' = Append(stages, "parse")
    /\ StageEnds(ParseHistories(df), "metrics")
    /\ UNCHANGED <<data, strategy, apiKey, envChanges, calls, recs>>

\* utils.py 40-62
Metrics ==
    /\ UNCHANGED <<ruleVars, appVars>>
    /\ pc = "metrics"
    /\ stages' = Append(stages, "metrics")
    /\ StageEnds(ComputeMetrics(df), "choose")
    /\ UNCHANGED <<data, strategy, apiKey, envChanges, calls, recs>>

\* utils.py 65: the branch on os.getenv('OPENAI_API_KEY')
ChooseStrategy ==
    /\ UNCHANGED <<ruleVars, appVars>>
    /\ pc = "choose"
    /\ stages' = Append(stages, "choose")
    /\ pc' = IF apiKey THEN "ai" ELSE "basic"
    /\ strategy' = IF apiKey THEN "ai" ELSE "basic"
    /\ UNCHANGED <<data, df, apiKey, envChanges, calls, recs, result>>

\* utils.py 66: df.apply(get_ai_recommendation, axis=1), one row
AiRow ==
    /\ UNCHANGED <<ruleVars, appVars>>
    /\ pc = "ai"
    /\ Len(recs) < NRows(df)
    /\ \E llm \in LlmOutcomes :
         /\ recs' = Append(recs, get_ai_recommendation(df.rows[Len(recs) + 1],
                                                       apiKey, llm))
         /\ calls' = Append(calls,
                [key |-> apiKey,
                 llm |-> IF ~SendsRequest(df.rows[Len(recs) + 1], apiKey)
                         THEN "none"
                         ELSE IF llm \in LlmFailures THEN "failed" ELSE "ok"])
    /\ UNCHANGED <<data, df, pc, stages, strategy, apiKey, envChanges, result>>

\* utils.py 68 and 261: df.apply(basic_logic, axis=1), one row
BasicRow ==
    /\ UNCHANGED <<ruleVars, appVars>>
    /\ pc = "basic"
    /\ Len(recs) < NRows(df)
    /\ recs' = Append(recs, basic_logic(df.rows[Len(recs) + 1]))
    /\ calls' = Append(calls, [key |-> apiKey, llm |-> "none"])
    /\ UNCHANGED <<data, df, pc, stages, strategy, apiKey, envChanges, result>>

\* utils.py 66/68 and 70: the column is assigned and the frame returned
Return ==
    /\ UNCHANGED <<ruleVars, appVars>>
    /\ pc \in {"ai", "basic"}
    /\ Len(recs) = NRows(df)
    /\ stages' = Append(stages, "recommend")
    /\ df' = SetColumn(df, "Recommendation", recs)
    /\ pc' = "done"
    /\ result' = [status |-> "returned"]
    /\ UNCHANGED <<data, strategy, apiKey, envChanges, calls, recs>>

\* the process environment changes while the recommendations are computed;
\* the key is read nowhere else (utils.py 65, 171), and Init covers both
\* values for the rest of the run
SetEnv ==
    /\ UNCHANGED <<ruleVars, appVars>>
    /\ pc \in {"ai", "basic"}
    /\ Len(recs) < NRows(df)
    /\ envChanges < MaxEnvChanges
    /\ apiKey' = ~apiKey
    /\ envChanges' = envChanges + 1
    /\ UNCHANGED <<data, df, pc, stages, strategy, calls, recs, result>>

Next ==
    \/ Validate
    \/ Parse
    \/ Metrics
    \/ ChooseStrategy
    \/ AiRow
    \/ BasicRow
    \/ Return
    \/ SetEnv

Spec == Init /\ [][Next]_vars

(***************************************************************************)
(* Properties of one run of process_data (Spec).                           *)
(***************************************************************************)
HistoryColumns == {"Price_History", "Sales_History"}
HasRequired == RequiredSet \subseteq data.cols
Rows == 1..NRows(data)

\* the parsing stage has run and ended without an exception
ParsedOk == Len(stages) >= 2 /\ ~(pc = "raised" /\ Len(stages) = 2)

\* C1: in an LLM-backed run, a row whose LLM call failed carries the text the
\* Rule-Based strategy gives for the same metrics.
C1_FailedCallFallsBackToRuleBased ==
    (strategy = "ai" /\ pc = "done") =>
        \A i \in Rows :
            calls[i].llm = "failed" =>
                df.rows[i]["Recommendation"] = basic_logic(df.rows[i])

\* C2: a table lacking required columns makes process_data fail with an error
\* naming every absent required column, before any parsing, metric or
\* recommendation stage has run, and no enriched table is returned.
C2_MissingColumnsFailBeforeProcessing ==
    (~HasRequired /\ pc # "validate") =>
        /\ pc = "raised"
        /\ result.status = "raised"
        /\ result.at = "required_cols"
        /\ {result.missing[i] : i \in 1..Len(result.missing)}
             = RequiredSet \ data.cols
        /\ stages = <<"validate">>
        /\ df = data
        /\ recs = <<>>

C2_Witness ==
    /\ pc = "raised"
    /\ Cardinality(RequiredSet \ data.cols) >= 2
    /\ Optional \subseteq data.cols
    /\ NRows(data) >= 2

\* C3: a table with the five required columns is always processed to the
\* end; no exception reaches the caller.
C3_RequiredColumnsSuffice == HasRequired => pc # "raised"

\* a text cell that none of the three decoders of parse_history accepts
Unparseable(cell) ==
    /\ cell.k = "str"
    /\ ~json_loads(cell.s).ok
    /\ ~literal_eval(cell.s).ok
    /\ ~FloatTokens(SplitComma(cell.s, <<>>)).ok

\* C4: an unparseable history cell is treated as empty history (the row gets
\* the one-element history of its current value) and the failure does not
\* end the run.
C4_UnparseableCellIsEmptyHistory ==
    (HasRequired /\ Len(stages) >= 2) =>
        \A i \in Rows : \A h \in HistoryColumns \cap data.cols :
            Unparseable(data.rows[i][h]) =>
                /\ ~(pc = "raised" /\ Len(stages) = 2)
                /\ df.rows[i][h] =
                     List(<<data.rows[i][IF h = "Price_History"
                                         THEN "Current_Price" ELSE "Sales_30d"]>>)

\* C5: the strategy is chosen once, at utils.py 65, and every row of the run
\* is handled by it whatever happens to the credential afterwards: in an
\* LLM-backed run no row is answered for lack of a key, in a Rule-Based run
\* every row carries the Rule-Based text.
C5_StrategyChosenOncePerRun ==
    \A i \in 1..Len(recs) :
        /\ strategy = "ai" => recs[i] # MsgNoKey
        /\ strategy = "basic" => recs[i] = basic_logic(df.rows[i])

\* C9: after the parsing stage both history columns hold, in every row, a
\* sequence of length >= 1, and an absent cell has become the one-element
\* sequence of the current price or sales.
C9_ParsedHistoriesAreNonEmptySequences ==
    ParsedOk =>
        \A i \in Rows :
            /\ \A h \in HistoryColumns :
                 IsSeq(df.rows[i][h]) /\ Len(df.rows[i][h].items) >= 1
            /\ ("Price_History" \notin data.cols \/ IsNa(data.rows[i]["Price_History"]))
                 => df.rows[i]["Price_History"] = List(<<data.rows[i]["Current_Price"]>>)
            /\ ("Sales_History" \notin data.cols \/ IsNa(data.rows[i]["Sales_History"]))
                 => df.rows[i]["Sales_History"] = List(<<data.rows[i]["Sales_30d"]>>)

\* a row without a positive competitor price
NoCompetitor(i) ==
    \/ "Competitor_Price" \notin data.cols
    \/ IsNa(data.rows[i]["Competitor_Price"])
    \/ data.rows[i]["Competitor_Price"].v <= 0

\* C10: a row whose Competitor_Price is absent or non-positive gets
\* Competitor_Gap 0; computing the column never ends in an error.
C10_NoCompetitorGivesZeroGap ==
    (ParsedOk /\ Len(stages) >= 3) =>
        \A i \in Rows :
            NoCompetitor(i) =>
                /\ ~(pc = "raised" /\ result.at = "Competitor_Gap")
                /\ "Competitor_Gap" \in df.cols => IsZero(df.rows[i]["Competitor_Gap"])

(***************************************************************************)
(* basic_logic as a function of one row.                                   *)
(***************************************************************************)
RunwayValues ==
    {Rat(0, 1), Rat(10, 1), Rat(149, 10), Rat(15, 1), Rat(30, 1), Rat(60, 1),
     Rat(601, 10), Rat(80, 1), Rat(10000, 1)}
SensitivityValues ==
    {Num(0), Rat(-10, 1), Rat(-1, 5), Rat(-11, 100), Rat(-1, 10), Rat(-9, 100),
     Rat(1, 2)}

RuleRows ==
    {[Stock_Runway |-> sr, PS_units |-> ps, Is_Holiday_Period |-> Bool(h)] :
        sr \in RunwayValues, ps \in SensitivityValues, h \in BOOLEAN}

InitRule ==
    /\ PipeIdle
    /\ AppIdle
    /\ ruleRow \in RuleRows
    /\ ruleOut = None

ApplyRule ==
    /\ ruleOut = None
    /\ ruleOut' = basic_logic(ruleRow)
    /\ UNCHANGED <<ruleRow, pipeVars, appVars>>

NextRule == ApplyRule

SpecRule == InitRule /\ [][NextRule]_vars

\* C7: basic_logic is the first-match-wins tree (1) runway > 60 and
\* PS_units < -0.1: discount 15%; (2) else runway < 15: raise 10%, whatever
\* PS_units and the holiday flag are; (3) else holiday: discount 10%;
\* (4) else hold; and the text always has the three lines Analysis,
\* Recommendation, Effect.
RuleRunway == ToRat(ruleRow["Stock_Runway"])
RulePs == ToRat(ruleRow["PS_units"])
RuleExcess ==
    /\ RuleRunway.n > ExcessRunway * RuleRunway.d
    /\ RulePs.n * SensitivityLimit.d < SensitivityLimit.n * RulePs.d
RuleLow == RuleRunway.n < LowRunway * RuleRunway.d
RuleHoliday == ruleRow["Is_Holiday_Period"].b

C7_RuleBasedDecisionTree ==
    ruleOut # None =>
        /\ RuleExcess => ruleOut = RecDiscount15
        /\ (~RuleExcess /\ RuleLow) => ruleOut = RecRaise10
        /\ (~RuleExcess /\ ~RuleLow /\ RuleHoliday) => ruleOut = RecDiscount10
        /\ (~RuleExcess /\ ~RuleLow /\ ~RuleHoliday) => ruleOut = RecHold
        /\ Len(ruleOut.lines) = 3
        /\ [i \in 1..3 |-> ruleOut.lines[i].label]
             = <<"Analysis", "Recommendation", "Effect">>

C7_Witness ==
    /\ ruleOut = RecRaise10
    /\ RuleLow
    /\ RuleHoliday
    /\ RulePs.n * SensitivityLimit.d < SensitivityLimit.n * RulePs.d

(***************************************************************************)
(* The web application (app.py): handlers run on server threads and        *)
(* interleave statement by statement over the module-level data_store.     *)
(***************************************************************************)
MaxUploads == 2
MaxQueries == 2

\* what an upload request carries: no file part, a file that is neither CSV
\* nor Excel, or a readable table
TableNoCost == [cols |-> AllColumns \ {"Cost"},
                rows |-> <<Restrict(BaseRow, AllColumns \ {"Cost"})>>]
TableGood == [cols |-> AllColumns, rows |-> <<BaseRow>>]
TableGarbage ==
    [cols |-> AllColumns, rows |-> <<With(BaseRow, "Price_History", CellGarbage)>>]
AppTables == {TableGood, TableNoCost, TableGarbage}
UploadKinds == {"nofile", "other", "table"}
Formats == {"csv", "excel", "json", "xml"}

\* utils.py 13-74 as the handlers see it: a table or an exception (the
\* recommendation stage raises nothing)
process_data(t) ==
    IF missing_cols(t) # <<>> THEN Raise("ValueError", "required_cols")
    ELSE Then(ParseHistories(t), ComputeMetrics)

Snapshot(id) == [k |-> "upload", id |-> id]

\* the test of get_data and export_data on the wrong field
HasData_raw(store) == store.raw_data # None

\* app.py 128, 138: data_store['processed_data'] is None
HasData(store) == store.processed_data # None

InitApp ==
    /\ PipeIdle
    /\ RuleIdle
    /\ AppIdle

Respond(t, status, body) ==
    th' = [th EXCEPT ![t].pc = "done", ![t].status = status, ![t].body = body]

Goto(t, next) == th' = [th EXCEPT ![t].pc = next]

Begin(t, op, next, id, table) ==
    th' = [th EXCEPT ![t] = [IdleThread EXCEPT !.op = op, !.pc = next,
                                               !.id = id, !.data = table]]

\* app.py 45-60: POST / up to reading the file
IndexPost(t) ==
    /\ th[t].op = "idle"
    /\ uploads < MaxUploads
    /\ uploads' = uploads + 1
    /\ \E kind \in UploadKinds, table \in AppTables :
        IF kind = "nofile"
        THEN th' = [th EXCEPT ![t] = [IdleThread EXCEPT !.op = "index",
                        !.pc = "done", !.status = 200, !.body = "error_no_file"]]
        ELSE IF kind = "other"
        THEN th' = [th EXCEPT ![t] = [IdleThread EXCEPT !.op = "index",
                        !.pc = "done", !.status = 200, !.body = "error_format"]]
        ELSE Begin(t, "index", "store_raw", uploads + 1, table)
    /\ UNCHANGED <<data_store, queries, okUploads, pipeVars, ruleVars>>

\* app.py 63
IndexStoreRaw(t) ==
    /\ th[t].op = "index" /\ th[t].pc = "store_raw"
    /\ data_store' = [data_store EXCEPT !.raw_data = Snapshot(th[t].id)]
    /\ Goto(t, "process")
    /\ UNCHANGED <<uploads, queries, okUploads, pipeVars, ruleVars>>

\* app.py 66, and 79-81 when process_data raises
IndexProcess(t) ==
    /\ th[t].op = "index" /\ th[t].pc = "process"
    /\ IF process_data(th[t].data).ok
       THEN Goto(t, "store_processed") /\ okUploads' = okUploads + 1
       ELSE Respond(t, 200, "error_exception") /\ okUploads' = okUploads
    /\ UNCHANGED <<data_store, uploads, queries, pipeVars, ruleVars>>

\* app.py 67
IndexStoreProcessed(t) ==
    /\ th[t].op = "index" /\ th[t].pc = "store_processed"
    /\ data_store' = [data_store EXCEPT !.processed_data = Snapshot(th[t].id)]
    /\ Goto(t, "stamp")
    /\ UNCHANGED <<uploads, queries, okUploads, pipeVars, ruleVars>>

\* app.py 70
IndexStamp(t) ==
    /\ th[t].op = "index" /\ th[t].pc = "stamp"
    /\ data_store' = [data_store EXCEPT !.last_update = Snapshot(th[t].id)]
    /\ Goto(t, "render")
    /\ UNCHANGED <<uploads, queries, okUploads, pipeVars, ruleVars>>

\* app.py 72-77: the page shows the local table and the stored last_update
IndexRender(t) ==
    /\ th[t].op = "index" /\ th[t].pc = "render"
    /\ th' = [th EXCEPT ![t].pc = "done", ![t].status = 200, ![t].body = "table",
                        ![t].seenData = Snapshot(th[t].id),
                        ![t].seenStamp = data_store.last_update]
    /\ UNCHANGED <<data_store, uploads, queries, okUploads, pipeVars, ruleVars>>

\* app.py 87-103: POST /api/upload up to reading the body
ApiUpload(t) ==
    /\ th[t].op = "idle"
    /\ uploads < MaxUploads
    /\ uploads' = uploads + 1
    /\ \E kind \in UploadKinds, table \in AppTables :
        IF kind = "nofile"
        THEN th' = [th EXCEPT ![t] = [IdleThread EXCEPT !.op = "api_upload",
                        !.pc = "done", !.status = 400, !.body = "error_no_file"]]
        ELSE IF kind = "other"
        THEN th' = [th EXCEPT ![t] = [IdleThread EXCEPT !.op = "api_upload",
                        !.pc = "done", !.status = 400, !.body = "error_format"]]
        ELSE Begin(t, "api_upload", "process", uploads + 1, table)
    /\ UNCHANGED <<data_store, queries, okUploads, pipeVars, ruleVars>>

\* app.py 107, and 122-124 when process_data raises
ApiProcess(t) ==
    /\ th[t].op = "api_upload" /\ th[t].pc = "process"
    /\ IF process_data(th[t].data).ok
       THEN Goto(t, "store_raw") /\ okUploads' = okUploads + 1
       ELSE Respond(t, 500, "error_exception") /\ okUploads' = okUploads
    /\ UNCHANGED <<data_store, uploads, queries, pipeVars, ruleVars>>

\* app.py 110
ApiStoreRaw(t) ==
    /\ th[t].op = "api_upload" /\ th[t].pc = "store_raw"
    /\ data_store' = [data_store EXCEPT !.raw_data = Snapshot(th[t].id)]
    /\ Goto(t, "store_processed")
    /\ UNCHANGED <<uploads, queries, okUploads, pipeVars, ruleVars>>

\* app.py 111
ApiStoreProcessed(t) ==
    /\ th[t].op = "api_upload" /\ th[t].pc = "store_processed"
    /\ data_store' = [data_store EXCEPT !.processed_data = Snapshot(th[t].id)]
    /\ Goto(t, "stamp")
    /\ UNCHANGED <<uploads, queries, okUploads, pipeVars, ruleVars>>

\* app.py 114
ApiStamp(t) ==
    /\ th[t].op = "api_upload" /\ th[t].pc = "stamp"
    /\ data_store' = [data_store EXCEPT !.last_update = Snapshot(th[t].id)]
    /\ Goto(t, "respond")
    /\ UNCHANGED <<uploads, queries, okUploads, pipeVars, ruleVars>>

\* app.py 116-120
ApiRespond(t) ==
    /\ th[t].op = "api_upload" /\ th[t].pc = "respond"
    /\ th' = [th EXCEPT ![t].pc = "done", ![t].status = 200, ![t].body = "data",
                        ![t].seenData = Snapshot(th[t].id),
                        ![t].seenStamp = data_store.last_update]
    /\ UNCHANGED <<data_store, uploads, queries, okUploads, pipeVars, ruleVars>>

\* app.py 128-129: GET /api/data, the test of the store
GetData(t) ==
    /\ th[t].op = "idle"
    /\ queries < MaxQueries
    /\ queries' = queries + 1
    /\ th' = [th EXCEPT ![t] =
                IF HasData(data_store)
                THEN [IdleThread EXCEPT !.op = "get_data", !.pc = "read_data",
                                        !.okAtCheck = okUploads]
                ELSE [IdleThread EXCEPT !.op = "get_data", !.pc = "done",
                                        !.okAtCheck = okUploads,
                                        !.status = 404, !.body = "no_data"]]
    /\ UNCHANGED <<data_store, uploads, okUploads, pipeVars, ruleVars>>

\* app.py 132: data_store['processed_data'].to_dict(...); on None the
\* attribute lookup raises and the server answers 500
GetReadData(t) ==
    /\ th[t].op = "get_data" /\ th[t].pc = "read_data"
    /\ IF data_store.processed_data = None
       THEN Respond(t, 500, "crash")
       ELSE th' = [th EXCEPT ![t].pc = "read_stamp",
                             ![t].seenData = data_store.processed_data]
    /\ UNCHANGED <<data_store, uploads, queries, okUploads, pipeVars, ruleVars>>

\* app.py 133, 131: the stored last_update, then the response
GetReadStamp(t) ==
    /\ th[t].op = "get_data" /\ th[t].pc = "read_stamp"
    /\ th' = [th EXCEPT ![t].pc = "done", ![t].status = 200, ![t].body = "data",
                        ![t].seenStamp = data_store.last_update]
    /\ UNCHANGED <<data_store, uploads, queries, okUploads, pipeVars, ruleVars>>

\* app.py 138-141: GET /api/export, the test of the store
ExportData(t) ==
    /\ th[t].op = "idle"
    /\ queries < MaxQueries
    /\ queries' = queries + 1
    /\ th' = [th EXCEPT ![t] =
                IF HasData(data_store)
                THEN [IdleThread EXCEPT !.op = "export_data", !.pc = "export",
                                        !.okAtCheck = okUploads]
                ELSE [IdleThread EXCEPT !.op = "export_data", !.pc = "done",
                                        !.okAtCheck = okUploads,
                                        !.status = 404, !.body = "no_data"]]
    /\ UNCHANGED <<data_store, uploads, okUploads, pipeVars, ruleVars>>

\* app.py 143-170: the export in the requested format; a method call on a
\* None table raises inside the try and gives 500
ExportBody(t) ==
    /\ th[t].op = "export_data" /\ th[t].pc = "export"
    /\ \E format_type \in Formats :
        IF format_type \notin {"csv", "excel", "json"}
        THEN Respond(t, 400, "error_format")
        ELSE IF data_store.processed_data = None
        THEN Respond(t, 500, "error_exception")
        ELSE th' = [th EXCEPT ![t].pc = "done", ![t].status = 200,
                              ![t].body = format_type,
                              ![t].seenData = data_store.processed_data]
    /\ UNCHANGED <<data_store, uploads, queries, okUploads, pipeVars, ruleVars>>

\* the response is sent and the thread takes the next request
Finish(t) ==
    /\ th[t].pc = "done"
    /\ th' = [th EXCEPT ![t] = IdleThread]
    /\ UNCHANGED <<data_store, uploads, queries, okUploads, pipeVars, ruleVars>>

NextApp ==
    \E t \in Threads :
        \/ IndexPost(t)
        \/ IndexStoreRaw(t)
        \/ IndexProcess(t)
        \/ IndexStoreProcessed(t)
        \/ IndexStamp(t)
        \/ IndexRender(t)
        \/ ApiUpload(t)
        \/ ApiProcess(t)
        \/ ApiStoreRaw(t)
        \/ ApiStoreProcessed(t)
        \/ ApiStamp(t)
        \/ ApiRespond(t)
        \/ GetData(t)
        \/ GetReadData(t)
        \/ GetReadStamp(t)
        \/ ExportData(t)
        \/ ExportBody(t)
        \/ Finish(t)

SpecApp == InitApp /\ [][NextApp]_vars

Readers == {"get_data", "export_data"}

\* C6: a reader never sees a partially replaced store: the table and the
\* last_update a completed /api/data response carries come from one upload.
C6_ReaderSeesOneUpload ==
    \A t \in Threads :
        (th[t].op = "get_data" /\ th[t].pc = "done" /\ th[t].status = 200) =>
            th[t].seenStamp = th[t].seenData

\* C8: a query or export that tests the store while no upload has been
\* processed successfully, failed uploads or not, is answered with the
\* no-data error (404) and passes no further statement.
C8_NoDataBeforeFirstSuccess ==
    \A t \in Threads :
        (th[t].op \in Readers /\ th[t].okAtCheck = 0) =>
            /\ th[t].pc = "done"
            /\ th[t].status = 404
            /\ th[t].body = "no_data"

C8_Witness ==
    /\ okUploads = 0
    /\ uploads = MaxUploads
    /\ data_store.raw_data # None
    /\ \E t \in Threads : \E u \in Threads \ {t} :
        /\ th[t].op = "get_data" /\ th[t].status = 404
        /\ th[u].op = "export_data" /\ th[u].status = 404

\* no upload handler is between its first and its last statement
UploadsAtRest ==
    \A t \in Threads :
        th[t].op \in {"index", "api_upload"} => th[t].pc = "done"

\* C11: a failed upload leaves the store as it was: whenever no upload is in
\* progress, raw_data, processed_data and last_update stem from one and the
\* same upload, and all three are unset while no upload has succeeded.
C11_FailedUploadLeavesStoreUnchanged ==
    UploadsAtRest =>
        /\ data_store.raw_data = data_store.processed_data
        /\ data_store.last_update = data_store.processed_data
        /\ okUploads = 0 => data_store.raw_data = None

=============================================================================
